---- MODULE Spec2Model ----
(***************************************************************************)
(* Model of new_dashboard.py: the call-recording dashboard that parses an  *)
(* exported listing, downloads each recording into temp_recordings/,       *)
(* transcribes and summarises it and appends a row to calls_summary.csv.   *)
(*                                                                         *)
(* Text is modelled as a sequence of one-character strings, so that        *)
(* sanitize_filename, strip and replace act on characters as the code's    *)
(* do.  None (Python's None) is a value no text is equal to.               *)
(***************************************************************************)
EXTENDS Integers, Sequences, FiniteSets, TLC

\* ------------------------------------------------------------------ bounds
\* longest listing (number of <tr> rows) of the pipeline specification
MaxRows == 2
\* number of times the "Download recordings & process" button is pressed
MaxRuns == 2
\* number of faults the environment injects in one session: a failed
\* download, an engine that raises or hears nothing, a failed write
MaxFaults == 2
\* longest listing of the parser specification
MaxParseRows == 1

\* ------------------------------------------------------------------ text
None == <<"None">>

\* the characters sanitize_filename replaces (the class [<>:"/\\|?* ])
UnsafeChars == {"<", ">", ":", "\"", "/", "\\", "|", "?", "*", " "}

\* the whitespace of the modelled alphabet
IsSpace(ch) == ch = " "

RECURSIVE MapChars(_, _)
\* re.sub over a one-character class: every character in cs becomes "_"
MapChars(s, cs) ==
  IF s = <<>> THEN <<>>
  ELSE <<IF Head(s) \in cs THEN "_" ELSE Head(s)>> \o MapChars(Tail(s), cs)

sanitize_filename(s) == MapChars(s, UnsafeChars)

RECURSIVE LStrip(_)
LStrip(s) == IF s # <<>> /\ IsSpace(Head(s)) THEN LStrip(Tail(s)) ELSE s

RECURSIVE RStrip(_)
RStrip(s) ==
  IF s # <<>> /\ IsSpace(s[Len(s)]) THEN RStrip(SubSeq(s, 1, Len(s) - 1)) ELSE s

\* str.strip()
Strip(s) == RStrip(LStrip(s))

RECURSIVE RemoveSpaces(_)
\* str.replace(" ", "")
RemoveSpaces(s) ==
  IF s = <<>> THEN <<>>
  ELSE (IF Head(s) = " " THEN <<>> ELSE <<Head(s)>>) \o RemoveSpaces(Tail(s))

\* ------------------------------------------------------------------ listing
\* A <td>: its class, the text of its span.phonenumber (None when the cell
\* has no such span) and the cell's own text outside the span.
Td(cls, span, text) == [cls |-> cls, span |-> span, text |-> text]

\* A <tr>: its class, its data-id attribute (None when absent) and its cells.
Tr(cls, id, tds) == [cls |-> cls, data_id |-> id, tds |-> tds]

\* the result of a find that finds no cell
NoTd == Td("none", None, <<>>)

\* td.text: all the text inside the cell
TdText(td) == td.text \o (IF td.span = None THEN <<>> ELSE td.span)

RECURSIVE FindFrom(_, _, _)
FindFrom(tds, cls, k) ==
  IF k > Len(tds) THEN NoTd
  ELSE IF tds[k].cls = cls THEN tds[k] ELSE FindFrom(tds, cls, k + 1)

\* row.find('td', class_=cls): the first such cell, or None
FindTd(row, cls) == FindFrom(row.tds, cls, 1)

\* td.find('span', class_='phonenumber').text raises AttributeError when
\* the cell has no such span
SpanRaises(td) == td # NoTd /\ td.span = None

SpanText(td) == IF td = NoTd THEN <<>> ELSE td.span

\* row.find_all('td')[4] if len(row.find_all('td')) > 4 else None
FifthTd(row) == IF Len(row.tds) > 4 THEN row.tds[5] ELSE NoTd

Vikki == <<"V">>
Assistant == <<"A">>
UnknownUser == <<"U">>
Ext200 == <<"*", "2", "0", "0">>
Ext201 == <<"*", "2", "0", "1">>
Ext199 == <<"*", "1", "9", "9">>

UserTag(rec_number) ==
  IF rec_number = Ext200 THEN Vikki
  ELSE IF rec_number = Ext201 THEN Assistant
  ELSE UnknownUser

\* One iteration of the loop of parse_html_calls over a tr.recording: either
\* an AttributeError (raised), or the record appended (when the row has a
\* data-id), or nothing.
ParseRow(row) ==
  LET date_td == FindTd(row, "date")
      full_date == IF date_td # NoTd THEN Strip(TdText(date_td)) ELSE <<>>
      rec_td == FindTd(row, "rec")
      from_td == FindTd(row, "from")
      to_td == FifthTd(row)
      rec_number == Strip(SpanText(rec_td))
      from_number == RemoveSpaces(Strip(SpanText(from_td)))
      to_number == RemoveSpaces(Strip(SpanText(to_td)))
  IN IF SpanRaises(rec_td) \/ SpanRaises(from_td) \/ SpanRaises(to_td)
     THEN [raised |-> TRUE, calls |-> <<>>]
     ELSE [raised |-> FALSE,
           calls |-> IF row.data_id # None /\ row.data_id # <<>>
                     THEN <<[data_id |-> row.data_id,
                             date_time |-> full_date,
                             from_number |-> from_number,
                             to_number |-> to_number,
                             user_tag |-> UserTag(rec_number)]>>
                     ELSE <<>>]

RECURSIVE parse_html_calls(_)
\* soup.select("tr.recording") in document order; an exception in any row
\* leaves the function
parse_html_calls(html) ==
  IF html = <<>> THEN [raised |-> FALSE, calls |-> <<>>]
  ELSE IF Head(html).cls # "recording" THEN parse_html_calls(Tail(html))
  ELSE LET r == ParseRow(Head(html))
       IN IF r.raised THEN r
          ELSE LET rest == parse_html_calls(Tail(html))
               IN IF rest.raised THEN rest
                  ELSE [raised |-> FALSE, calls |-> r.calls \o rest.calls]

\* ------------------------------------------------------------------ inputs
Other == Td("other", None, <<>>)
DateTd == Td("date", None, <<" ", "1", ":", "0", " ", "9", " ">>)
Rec200 == Td("rec", Ext200, <<>>)
Rec201 == Td("rec", Ext201, <<>>)
FromTd == Td("from", <<" ", "0", " ", "7", " ">>, <<>>)
ToTd == Td("to", <<"4", " ", "4">>, <<>>)

\* the rows of the listings the pipeline specification uploads
PipelineRows ==
  { Tr("recording", <<"1">>, <<DateTd, Rec200, FromTd, Other, ToTd>>),
    Tr("recording", <<"2">>, <<DateTd, Rec201, FromTd>>),
    Tr("recording", None, <<DateTd, Rec200, FromTd, Other, ToTd>>),
    Tr("recording", <<"3">>, <<DateTd, Td("rec", None, <<>>), FromTd>>) }

SeqsUpTo(S, n) == UNION { [1..k -> S] : k \in 0..n }

Documents == SeqsUpTo(PipelineRows, MaxRows)

\* the rows of the parser specification: every combination of a present,
\* span-less or absent cell, with texts that carry path-unsafe characters
IdAttrs == {None, <<>>, <<"7">>, <<"a", "/", "b">>, <<"a", " ", "b">>}
DateCells == {Other, Td("date", None, <<" ", "1", "/", "2", " ", "3", ":", "4", " ">>)}
RecCells == {Other, Td("rec", None, <<>>), Rec200, Rec201, Td("rec", Ext199, <<>>)}
FromCells == {Other, Td("from", None, <<>>), FromTd, Td("from", <<"+", "4", ":", "4">>, <<>>)}
FifthCells == {NoTd, Td("to", None, <<>>), ToTd, Td("to", <<"?">>, <<>>)}

ParseRows ==
  { Tr("recording", id, <<d, r, f, Other>> \o (IF t = NoTd THEN <<>> ELSE <<t>>)) :
      id \in IdAttrs, d \in DateCells, r \in RecCells, f \in FromCells, t \in FifthCells }
    \cup {Tr("other", <<"7">>, <<Td("rec", None, <<>>)>>)}

ParseDocuments == SeqsUpTo(ParseRows, MaxParseRows)

\* ------------------------------------------------------------------ engines
\* what model.transcribe can return as result["text"]
EngineText == <<" ", "h", "i", " ">>
\* a result without speech: result.get("text", "") of whitespace or nothing
SilentText == <<" ">>

SummaryInputLimit == 1000

NoTranscript == <<"N", "o", "T">>
SummarizationError == <<"E", "r", "r">>
\* summaries[0]['summary_text'] of the summarization pipeline
EngineSummary(text) == <<"S">>

Truncate(text) ==
  SubSeq(text, 1, IF Len(text) < SummaryInputLimit THEN Len(text) ELSE SummaryInputLimit)

\* ------------------------------------------------------------------ files
Sep == <<"_">>
\* fn of download_audio: only the date goes through sanitize_filename
CacheFilename(call) ==
  sanitize_filename(call.date_time) \o Sep \o call.from_number \o Sep
    \o call.to_number \o Sep \o call.user_tag \o Sep \o call.data_id
    \o <<".", "m", "p", "3">>

HeaderLine == [kind |-> "header"]
RowLine(call, summary) ==
  [kind |-> "row", date |-> call.date_time, from |-> call.from_number,
   to |-> call.to_number, summary |-> summary]

\* ------------------------------------------------------------------ state
VARIABLES
  html,        \* the uploaded listing, a sequence of rows
  calls,       \* the records parse_html_calls returned
  pc,          \* where the script is
  runs,        \* listings uploaded so far
  i,           \* 1-based index of the record the loop is at
  fn,          \* the cache filename download_audio computed last
  transcript,  \* result of transcribe_audio for the current record
  summary,     \* result of summarize_text for the current record
  files,       \* names of the files in temp_recordings/
  truncated,   \* the files among them whose download broke off
  csv,         \* calls_summary.csv: whether it exists, and its lines
  progress,    \* last value given to the progress bar, <<completed, total>>
  errors,      \* st.error messages of this run, in order
  log,         \* per record of this run: what each stage did
  fetches,     \* every call of download_audio so far, in order
  rowIdx,      \* indices of the records whose rows this run appended
  faults       \* faults injected so far

vars == <<html, calls, pc, runs, i, fn, transcript, summary, files, truncated,
          csv, progress, errors, log, fetches, rowIdx, faults>>

NoLog == [fetch |-> "none", transcribed |-> FALSE, trRaised |-> FALSE,
          summarized |-> FALSE, engine |-> FALSE, wrote |-> "none"]

Init ==
  /\ html \in Documents
  /\ calls = <<>>
  /\ pc = "uploaded"
  /\ runs = 1
  /\ i = 1
  /\ fn = <<>>
  /\ transcript = <<>>
  /\ summary = <<>>
  /\ files = {}
  /\ truncated = {}
  /\ csv = [exists |-> FALSE, lines |-> <<>>]
  /\ progress = <<0, 0>>
  /\ errors = <<>>
  /\ log = <<>>
  /\ fetches = <<>>
  /\ rowIdx = <<>>
  /\ faults = 0

\* ------------------------------------------------------------------ actions
CanFault == faults < MaxFaults

\* The page is used again with the listing still uploaded: the script runs
\* again from the top, with the files of the earlier runs on disk.
Rerun ==
  /\ pc \in {"done", "raised", "stopped"}
  /\ runs < MaxRuns
  /\ runs' = runs + 1
  /\ pc' = "uploaded"
  /\ calls' = <<>>
  /\ i' = 1
  /\ fn' = <<>>
  /\ transcript' = <<>>
  /\ summary' = <<>>
  /\ errors' = <<>>
  /\ log' = <<>>
  /\ rowIdx' = <<>>
  /\ progress' = <<0, 0>>
  /\ UNCHANGED <<html, files, truncated, csv, fetches, faults>>

\* calls = parse_html_calls(html_string); an exception ends the script run.
ParseListing ==
  /\ pc = "uploaded"
  /\ LET r == parse_html_calls(html)
     IN /\ pc' = IF r.raised THEN "raised" ELSE "ready"
        /\ calls' = r.calls
        /\ log' = [k \in 1..Len(r.calls) |-> NoLog]
  /\ UNCHANGED <<html, runs, i, fn, transcript, summary, files, truncated, csv,
                 progress, errors, fetches, rowIdx, faults>>

\* whisper.load_model raises: st.error and st.stop(), before the report is touched.
LoadModelFails ==
  /\ pc = "ready"
  /\ CanFault
  /\ faults' = faults + 1
  /\ pc' = "stopped"
  /\ errors' = Append(errors, [kind |-> "model", idx |-> 0])
  /\ UNCHANGED <<html, calls, runs, i, fn, transcript, summary, files, truncated,
                 csv, progress, log, fetches, rowIdx>>

\* os.path.exists(csv_path)
CsvExists(c) == c.exists

\* open(csv_path, "w") and writeheader()
WriteHeader(c) == [exists |-> TRUE, lines |-> <<HeaderLine>>]

\* a faulty variant: the header is written at every run
EnsureHeaderAlways(c) == [exists |-> TRUE, lines |-> Append(c.lines, HeaderLine)]

\* if not os.path.exists(csv_path): write the header
EnsureHeader(c) == IF CsvExists(c) THEN c ELSE WriteHeader(c)

\* The report cannot be created: the exception of open() ends the script run.
HeaderWriteFails ==
  /\ pc = "ready"
  /\ ~CsvExists(csv)
  /\ CanFault
  /\ faults' = faults + 1
  /\ pc' = "raised"
  /\ UNCHANGED <<html, calls, runs, i, fn, transcript, summary, files, truncated,
                 csv, progress, errors, log, fetches, rowIdx>>

\* The button is pressed: the model loads, the header is written if the
\* report is missing, the progress bar is set to 0 and the loop starts.
ClickProcess ==
  /\ pc = "ready"
  /\ csv' = EnsureHeader(csv)
  /\ progress' = <<0, Len(calls)>>
  /\ i' = 1
  /\ pc' = "loop"
  /\ UNCHANGED <<html, calls, runs, fn, transcript, summary, files, truncated,
                 errors, log, fetches, rowIdx, faults>>

\* a faulty variant: the cache is never consulted
CacheHitNever(name, fs) == FALSE

\* os.path.exists(filepath)
CacheHit(name, fs) == name \in fs

\* the except clause of the loop: st.error(f"Error processing call ...")
CallError(idx) == [kind |-> "call", idx |-> idx]

\* a faulty variant: a failed download ends the run
AfterFetchErrorAborts == "raised"

\* a faulty variant: a failed download is not noticed and the record goes on
AfterFetchErrorFallsThrough == "transcribe"

\* where the loop goes when download_audio raised: the except clause, then
\* the progress bar
AfterFetchError == "progress"

\* the files of temp_recordings/ after download_audio missed the cache:
\* open(filepath, "wb") creates the file once raise_for_status has passed
FilesAfter(fs, name, outcome) == IF outcome = "http" THEN fs ELSE fs \cup {name}

\* download_audio(session, call), with what the network does as outcome:
\* "ok", "http" (session.get or raise_for_status raises) or "stream"
\* (iter_content raises after the file was opened)
download_audio ==
  /\ pc = "loop"
  /\ i <= Len(calls)
  /\ LET name == CacheFilename(calls[i])
     IN /\ fn' = name
        /\ IF CacheHit(name, files)
           THEN /\ pc' = "transcribe"
                /\ log' = [log EXCEPT ![i].fetch = "hit"]
                /\ fetches' = Append(fetches, [call |-> calls[i], path |-> name,
                                               net |-> FALSE, wrote |-> FALSE, returned |-> TRUE])
                /\ UNCHANGED <<files, truncated, errors, faults>>
           ELSE \E outcome \in {"ok", "http", "stream"} :
                  /\ outcome # "ok" => CanFault
                  /\ faults' = IF outcome = "ok" THEN faults ELSE faults + 1
                  /\ log' = [log EXCEPT ![i].fetch = outcome]
                  /\ fetches' = Append(fetches, [call |-> calls[i], path |-> name,
                                                 net |-> TRUE, wrote |-> outcome # "http",
                                                 returned |-> outcome = "ok"])
                  /\ files' = FilesAfter(files, name, outcome)
                  /\ truncated' = IF outcome = "stream" THEN truncated \cup {name}
                                  ELSE truncated
                  /\ pc' = IF outcome = "ok" THEN "transcribe" ELSE AfterFetchError
                  /\ errors' = IF outcome = "ok" THEN errors
                               ELSE Append(errors, CallError(i))
  /\ UNCHANGED <<html, calls, runs, i, transcript, summary, csv, progress, rowIdx>>

\* a faulty variant: the error message is returned as the transcript
TranscriptOnErrorText == <<"e">>

\* the value transcribe_audio returns when model.transcribe raised
TranscriptOnError == <<>>

\* transcribe_audio(model, mp3_path): the engine's text stripped, or "" after
\* st.error when the engine raises
transcribe_audio ==
  /\ pc = "transcribe"
  /\ \/ /\ CanFault
        /\ faults' = faults + 1
        /\ transcript' = TranscriptOnError
        /\ errors' = Append(errors, [kind |-> "transcription", idx |-> i])
        /\ log' = [log EXCEPT ![i].transcribed = TRUE, ![i].trRaised = TRUE]
     \/ /\ CanFault
        /\ faults' = faults + 1
        /\ transcript' = Strip(SilentText)
        /\ log' = [log EXCEPT ![i].transcribed = TRUE]
        /\ UNCHANGED errors
     \/ /\ transcript' = Strip(EngineText)
        /\ log' = [log EXCEPT ![i].transcribed = TRUE]
        /\ UNCHANGED <<errors, faults>>
  /\ pc' = "summarize"
  /\ UNCHANGED <<html, calls, runs, i, fn, summary, files, truncated, csv,
                 progress, fetches, rowIdx>>

\* if not text
IsEmptyText(text) == text = <<>>

\* summarize_text(transcript)
summarize_text ==
  /\ pc = "summarize"
  /\ IF IsEmptyText(transcript)
     THEN /\ summary' = NoTranscript
          /\ log' = [log EXCEPT ![i].summarized = TRUE]
          /\ UNCHANGED <<errors, faults>>
     ELSE \/ /\ summary' = EngineSummary(Truncate(transcript))
             /\ log' = [log EXCEPT ![i].summarized = TRUE, ![i].engine = TRUE]
             /\ UNCHANGED <<errors, faults>>
          \/ /\ CanFault
             /\ faults' = faults + 1
             /\ summary' = SummarizationError
             /\ log' = [log EXCEPT ![i].summarized = TRUE, ![i].engine = TRUE]
             /\ errors' = Append(errors, [kind |-> "summarization", idx |-> i])
  /\ pc' = "write"
  /\ UNCHANGED <<html, calls, runs, i, fn, transcript, files, truncated, csv,
                 progress, fetches, rowIdx>>

\* open(csv_path, "a") and writer.writerow(...)
AppendLine(c, line) == [exists |-> TRUE, lines |-> Append(c.lines, line)]

\* where the loop goes when the row write raised: the except clause of the
\* loop catches it like any other exception, then the progress bar
AfterWriteError == "progress"

\* The row of the current record is appended to the report; when the write
\* raises, the except clause of the loop reports it as a per-record error.
AppendRow ==
  /\ pc = "write"
  /\ \/ /\ csv' = AppendLine(csv, RowLine(calls[i], summary))
        /\ rowIdx' = Append(rowIdx, i)
        /\ log' = [log EXCEPT ![i].wrote = "ok"]
        /\ pc' = "progress"
        /\ UNCHANGED <<errors, faults>>
     \/ /\ CanFault
        /\ faults' = faults + 1
        /\ errors' = Append(errors, CallError(i))
        /\ log' = [log EXCEPT ![i].wrote = "fail"]
        /\ pc' = AfterWriteError
        /\ UNCHANGED <<csv, rowIdx>>
  /\ UNCHANGED <<html, calls, runs, i, fn, transcript, summary, files, truncated,
                 progress, fetches>>

\* a faulty variant: the loop skips every other record
NextIndexSkips(k) == k + 2

\* the index of the record the next iteration takes
NextIndex(k) == k + 1

\* progress_bar.progress((i + 1) / len(calls)) and the next iteration
Progress ==
  /\ pc = "progress"
  /\ progress' = <<i, Len(calls)>>
  /\ i' = NextIndex(i)
  /\ pc' = "loop"
  /\ UNCHANGED <<html, calls, runs, fn, transcript, summary, files, truncated,
                 csv, errors, log, fetches, rowIdx, faults>>

\* The loop is over: st.success and the download button.
Finish ==
  /\ pc = "loop"
  /\ i > Len(calls)
  /\ pc' = "done"
  /\ UNCHANGED <<html, calls, runs, i, fn, transcript, summary, files, truncated,
                 csv, progress, errors, log, fetches, rowIdx, faults>>

Next ==
  \/ Rerun
  \/ ParseListing
  \/ LoadModelFails
  \/ HeaderWriteFails
  \/ ClickProcess
  \/ download_audio
  \/ transcribe_audio
  \/ summarize_text
  \/ AppendRow
  \/ Progress
  \/ Finish

Spec == Init /\ [][Next]_vars

\* ------------------------------------------------------------------ claims
FetchFailed(k) == log[k].fetch \in {"http", "stream"}
FailedFetches == {k \in DOMAIN log : FetchFailed(k)}
WriteFailures == {k \in DOMAIN log : log[k].wrote = "fail"}
CallErrors == {e \in DOMAIN errors : errors[e].kind = "call"}
InLoop == pc \in {"loop", "transcribe", "summarize", "write", "progress", "done"}
\* record k has been through its iteration
Completed(k) == k < i \/ (k = i /\ pc = "progress")

RECURSIVE Without(_, _)
\* the indices of s, in order, that are not in the set skip
Without(s, skip) ==
  IF s = <<>> THEN <<>>
  ELSE (IF Head(s) \in skip THEN <<>> ELSE <<Head(s)>>) \o Without(Tail(s), skip)

Indices(n) == [k \in 1..n |-> k]

\* the line of the report that this run appended for its j-th row
RunLine(j) == csv.lines[Len(csv.lines) - Len(rowIdx) + j]

\* C1: a fetch failure never ends the run: the loop goes on to the progress
\* update of that record; and when the loop is over, in a batch where the
\* fetch of exactly one record failed (and no row write failed), the rows of
\* all other records were appended and exactly one per-record failure was
\* reported.
C1_OneFetchFailureIsolated ==
  /\ \A k \in FailedFetches :
       /\ pc \notin {"raised", "stopped"}
       /\ k = i => pc = "progress"
  /\ (pc = "done" /\ Cardinality(FailedFetches) = 1 /\ WriteFailures = {})
       => /\ rowIdx = Without(Indices(Len(calls)), FailedFetches)
          /\ Cardinality(CallErrors) = 1

C1_Witness ==
  /\ pc = "done"
  /\ Len(calls) >= 2
  /\ Cardinality(FailedFetches) = 1
  /\ WriteFailures = {}
  /\ Len(rowIdx) = Len(calls) - 1

\* the calls of download_audio for the record of call a, from a up to b
SameRecord(a, b) == {c \in a..b : fetches[c].call = fetches[a].call}

\* C2: when download_audio fetched a record over the network and returned,
\* every later download_audio of the same record returns the same path with
\* no network call and no file write, so that the two calls together made
\* exactly one network call.
C2_SecondFetchIsCacheHit ==
  \A a \in DOMAIN fetches : \A b \in DOMAIN fetches :
    (a < b /\ fetches[b].call = fetches[a].call
       /\ fetches[a].returned /\ fetches[a].net)
    => /\ fetches[b].returned
       /\ fetches[b].path = fetches[a].path
       /\ ~fetches[b].net
       /\ ~fetches[b].wrote
       /\ Cardinality({c \in SameRecord(a, b) : fetches[c].net}) = 1

C2_Witness ==
  \E a \in DOMAIN fetches : \E b \in DOMAIN fetches :
    /\ a < b
    /\ fetches[b].call = fetches[a].call
    /\ fetches[a].returned /\ fetches[a].net
    /\ fetches[b].returned

C4_InputOrder ==
  InLoop =>
    /\ \A k \in DOMAIN log :
         /\ k > i => log[k] = NoLog
         /\ k < i => (FetchFailed(k) \/ log[k].wrote # "none")
    /\ \A j \in DOMAIN rowIdx :
         /\ j > 1 => rowIdx[j - 1] < rowIdx[j]
         /\ RunLine(j).kind = "row"
         /\ RunLine(j).date = calls[rowIdx[j]].date_time
         /\ RunLine(j).from = calls[rowIdx[j]].from_number
         /\ RunLine(j).to = calls[rowIdx[j]].to_number

C4_Witness ==
  /\ pc = "done"
  /\ Len(rowIdx) >= 2
  /\ calls[rowIdx[1]] # calls[rowIdx[2]]

\* C5: the cache filename download_audio builds contains none of the
\* characters < > : " / \ | ? * and no space.
C5_FilenameSafe == \A k \in DOMAIN fn : fn[k] \notin UnsafeChars

\* C6: a failed row write is fatal: the run ends with the exception, no
\* per-record error is reported for it and no further record is processed.
C6_WriteFailureIsFatal ==
  \A k \in WriteFailures :
    /\ pc = "raised"
    /\ i = k
    /\ \A e \in CallErrors : errors[e].idx # k

RecordingRowsWithId ==
  {k \in DOMAIN html :
     html[k].cls = "recording" /\ html[k].data_id \notin {None, <<>>}}

\* C7: parse_html_calls never raises, whichever cell or phone-number span
\* of a recording row is missing, and yields one record per recording row
\* that has an id.
C7_ParserNeverRaises ==
  pc # "uploaded" =>
    /\ pc # "raised"
    /\ Len(calls) = Cardinality(RecordingRowsWithId)

\* the position among this run's rows of the row of record k
RowOf(k) == CHOOSE j \in DOMAIN rowIdx : rowIdx[j] = k

\* C8: when the transcription engine raised for a record, the run goes on:
\* the transcript is empty, summarize_text gives the "No transcript
\* available" sentinel without calling the summarization engine, and unless
\* the row write itself failed a row with that sentinel is appended.
C8_TranscriptionFailureDegrades ==
  \A k \in DOMAIN log :
    log[k].trRaised =>
      /\ pc \notin {"raised", "stopped"}
      /\ ~log[k].engine
      /\ (k = i /\ pc \in {"summarize", "write"}) => transcript = <<>>
      /\ (k = i /\ pc = "write") => summary = NoTranscript
      /\ (Completed(k) \/ pc = "done") => log[k].summarized
      /\ (Completed(k) \/ pc = "done") /\ log[k].wrote # "fail"
           => /\ \E j \in DOMAIN rowIdx : rowIdx[j] = k
              /\ RunLine(RowOf(k)).summary = NoTranscript

C8_Witness ==
  \E k \in DOMAIN log :
    /\ log[k].trRaised
    /\ log[k].wrote = "ok"
    /\ pc = "done"

\* C9: a record whose fetch failed is never transcribed or summarised and
\* has no row, the progress bar is still advanced for it, and after the last
\* record the progress is total/total.
C9_FailedFetchSkipsStages ==
  /\ \A k \in FailedFetches :
       /\ ~log[k].transcribed
       /\ ~log[k].summarized
       /\ ~log[k].engine
       /\ log[k].wrote = "none"
       /\ \A j \in DOMAIN rowIdx : rowIdx[j] # k
  /\ (pc = "loop" /\ i > 1) => progress = <<i - 1, Len(calls)>>
  /\ (pc = "done" /\ Len(calls) > 0) => progress = <<Len(calls), Len(calls)>>

C9_Witness ==
  /\ pc = "done"
  /\ Len(calls) >= 2
  /\ FailedFetches # {}
  /\ Len(rowIdx) >= 1
  /\ progress = <<Len(calls), Len(calls)>>

\* C10: a fetch that did not return leaves no file at the cache path, so
\* the next fetch of the same record goes to the network again.
C10_FailedFetchLeavesNoFile ==
  /\ truncated = {}
  /\ \A a \in DOMAIN fetches : \A b \in DOMAIN fetches :
       (a < b /\ fetches[b].path = fetches[a].path /\ ~fetches[a].returned
          /\ \A c \in (a + 1)..(b - 1) : fetches[c].path # fetches[a].path)
       => fetches[b].net

\* ------------------------------------------------------------------ parser
\* The parser specification: any listing of ParseDocuments is parsed, and the
\* cache filename of each record it yields is computed.
InitParse ==
  /\ html \in ParseDocuments
  /\ calls = <<>>
  /\ pc = "uploaded"
  /\ runs = 1
  /\ i = 1
  /\ fn = <<>>
  /\ transcript = <<>>
  /\ summary = <<>>
  /\ files = {}
  /\ truncated = {}
  /\ csv = [exists |-> FALSE, lines |-> <<>>]
  /\ progress = <<0, 0>>
  /\ errors = <<>>
  /\ log = <<>>
  /\ fetches = <<>>
  /\ rowIdx = <<>>
  /\ faults = 0

\* the first two lines of download_audio, for the next record
NameRecording ==
  /\ pc = "ready"
  /\ i <= Len(calls)
  /\ fn' = CacheFilename(calls[i])
  /\ i' = i + 1
  /\ UNCHANGED <<html, calls, pc, runs, transcript, summary, files, truncated,
                 csv, progress, errors, log, fetches, rowIdx, faults>>

NextParse == ParseListing \/ NameRecording

SpecParse == InitParse /\ [][NextParse]_vars

====
